---- MODULE Spec2Model ----
(***************************************************************************)
(* A model of the tessera frontend's selection engine: the zustand project *)
(* store (stores/projectStore.ts), the React Query hooks that load a       *)
(* project into it (hooks/useProjectData.ts), the sampling panel           *)
(* (components/SamplingPanel.tsx, hooks/useSampling.ts), the region        *)
(* drawing overlay (components/SelectionOverlay.tsx), the scatter plot's   *)
(* region hit-testing (components/ScatterPlot.tsx, utils/geometry), the    *)
(* metadata filters (utils/filtering.ts, the control panel's filter form)  *)
(* and what the plot, the gallery and the sampling panel make of them, and *)
(* the statistics of the selection (utils/api.ts, computeSelectionStats).  *)
(*                                                                         *)
(* A JavaScript Set iterates in insertion order, so a Set<number> is       *)
(* modelled as a sequence without repetitions; SetOf gives its members.    *)
(*                                                                         *)
(* Specifications, all over the same variables:                            *)
(*   Spec          opening projects, and the store's selection calls       *)
(*   SpecStore     the selection calls on one loaded project               *)
(*   SpecSampling  the sampling panel, its requests and the clustering     *)
(*   SpecAtomic    the selection calls statement by statement, on a heap   *)
(*                 of Set objects, with a reader                           *)
(*   SpecOverlay   the scatter plot's keys, clicks and drawing overlay     *)
(*   SpecFilteredRegion    drawing regions while the plot hides points     *)
(*   SpecFilterEngine      any list of metadata filters on one project     *)
(*   SpecFilterPanel       the filter form, with Select All and clicks     *)
(*   SpecFilteredSampling  sampling while filters are active               *)
(*   SpecClusterSampler    client-side cluster sampling over its inputs    *)
(* A specification leaves the variables of the parts it does not move at   *)
(* their initial values; the heap follows the store in SpecAtomic only.    *)
(***************************************************************************)
EXTENDS Integers, Sequences, FiniteSets, TLC

\* ------------------------------------------------------------------ bounds
\* n_episodes of the larger of the two projects (the other has one fewer).
MaxEpisodes == 3
\* longest index list handed to selectIndices / selectByRegion.
MaxList == 2
\* most clusters a clustering response assigns the episodes to.
MaxClusters == 2
\* most sampling requests the network holds at once.
MaxInFlight == 2

\* ------------------------------------------------------------ state
VARIABLES
  \* -- the zustand store (projectStore.ts)
  project,                \* Project | null
  visualizationData,      \* VisualizationData | null
  isVisualizationLoading, \* boolean
  selectedIndices,        \* Set<number>, in insertion order
  lastSamplingResult,     \* SamplingResponse | null
  showSelectedOnly,       \* boolean
  metadataFilters,        \* MetadataFilter[]
  clusterLabels,          \* number[] | null (as [labels |-> ...])
  clusterMetadata,        \* ClusterMetadata | null
  error,                  \* string | null
  \* -- routing and the React Query cache (App.tsx, useProjectData.ts)
  projectId,              \* the :projectId route parameter, NULL on Home
  queries,                \* status of each ['project'|'visualization', id] query
  \* -- the sampling panel (SamplingPanel.tsx, useSampling.ts)
  strategy,               \* useState<Strategy>
  nSamples,               \* useState(Math.min(100, n_episodes))
  mutationStatus,         \* samplingMutation.status
  inFlight,               \* sampling requests sent and not yet answered
  \* -- the scatter plot and its drawing overlay (ScatterPlot.tsx,
  \*    SelectionOverlay.tsx)
  interactionMode,        \* 'select' | 'pan' | 'box' | 'lasso' | 'similar'
  modifierKey,            \* 'shift' | 'alt' | null
  keysDown,               \* the modifier keys (Shift, Alt) held down: what
                          \* e.shiftKey and e.altKey of an event report
  isDrawing,              \* boolean
  startPoint,             \* [x, y] | null (<<>>)
  currentPoint,           \* [x, y] | null (<<>>)
  lassoPath,              \* [x, y][]
  captured,               \* the pointer positions of the gesture under
                          \* way since the latest pointer-down in the
                          \* current mode: all of them (lasso), the first
                          \* and the latest (box)
  outcome,                \* NIL unless the latest event ended a gesture:
                          \* then what it had captured and the region
                          \* handed to onSelectionComplete (NIL if none)
  \* -- the Set objects of the JavaScript heap (SpecAtomic)
  heap,                   \* object id -> the Set's values
  storeRef,               \* the object state.selectedIndices refers to
  newRef,                 \* newSelection of the running transition, 0 if none
  pc,                     \* where the running transition stands
  todo,                   \* the add/delete calls it has yet to make
  readerRef,              \* the Set a reader took from the store, 0 if none
  readerSeen,             \* its values when the reader took it
  preSet,                 \* the selection before the running transition
                          \* (the current one when none is running)
  postSet,                \* the selection the transition is to publish
  \* -- the control panel's filter form (ControlPanel)
  selectedField,          \* string, '' while no field is chosen
  selectedOperator,       \* MetadataFilter['operator']
  filterValue,            \* string
  \* -- the store method called last by the latest step
  lastCall

dataVars == <<project, visualizationData, isVisualizationLoading>>
clusterVars == <<clusterLabels, clusterMetadata>>
navVars == <<projectId, queries>>
panelVars == <<strategy, nSamples, mutationStatus, inFlight>>
plotVars == <<interactionMode, modifierKey, keysDown, isDrawing, startPoint,
              currentPoint, lassoPath, captured, outcome>>
heapVars == <<heap, storeRef, newRef, pc, todo, readerRef, readerSeen,
              preSet, postSet>>
filterVars == <<metadataFilters>>
formVars == <<selectedField, selectedOperator, filterValue>>
vars == <<dataVars, selectedIndices, lastSamplingResult, showSelectedOnly,
          clusterVars, error, navVars, panelVars, plotVars, heapVars,
          filterVars, formVars, lastCall>>

\* What a selection transition of the store leaves alone.
selectionFrame == <<dataVars, lastSamplingResult, showSelectedOnly,
                    clusterVars, error, navVars, panelVars, plotVars,
                    heapVars, filterVars, formVars>>

\* null, for a string-valued field and for an object-valued field.
NULL == "null"
NIL == [null |-> TRUE]

\* ------------------------------------------------------------ Set<number>
\* The members of a Set.
SetOf(s) == {s[k] : k \in 1..Len(s)}

\* Set.prototype.add: appends a value that is not yet a member.
SetAdd(s, x) == IF x \in SetOf(s) THEN s ELSE Append(s, x)

\* Set.prototype.delete: removes the value, the others keep their order.
SetDelete(s, x) == SelectSeq(s, LAMBDA y : y # x)

\* indices.forEach((idx) => newSet.add(idx))
RECURSIVE AddEach(_, _)
AddEach(s, list) ==
  IF list = <<>> THEN s ELSE AddEach(SetAdd(s, Head(list)), Tail(list))

\* indices.forEach((idx) => newSet.delete(idx))
RECURSIVE DeleteEach(_, _)
DeleteEach(s, list) ==
  IF list = <<>> THEN s ELSE DeleteEach(SetDelete(s, Head(list)), Tail(list))

\* new Set(iterable): the values in order of first occurrence.
NewSet(list) == AddEach(<<>>, list)

\* All sequences over S of length at most n.
SeqsUpTo(S, n) == UNION {[1..k -> S] : k \in 0..n}

\* ------------------------------------------------------------ data
\* The two projects a session switches between, and their datasets.
Projects == {"A", "B"}
NEpisodes(p) == IF p = "A" THEN MaxEpisodes ELSE MaxEpisodes - 1
Dataset(p) == [project |-> p, n_episodes |-> NEpisodes(p)]

\* Array.from({ length: n }, (_, i) => i)
RECURSIVE Range(_)
Range(n) == IF n = 0 THEN <<>> ELSE Append(Range(n - 1), n - 1)

\* The index lists a caller can pass for a dataset of n episodes.
IndexLists(n) == SeqsUpTo(0..(n - 1), MaxList)

Modes == {"replace", "add", "remove"}

\* ------------------------------------------------------------ store
\* toggleSelection that forgets the has/delete branch.
ToggleResult_AddOnly(current, index) == SetAdd(current, index)

\* toggleSelection: the set it publishes.
ToggleResult(current, index) ==
  LET newSet == current
  IN IF index \in SetOf(newSet) THEN SetDelete(newSet, index)
                                ELSE SetAdd(newSet, index)

\* selectByRegion whose 'add' branch starts from an empty set instead of
\* a copy of the current one.
SelectByRegionResult_AddDropsCurrent(current, indices, mode) ==
  IF mode = "replace" THEN NewSet(indices)
  ELSE IF mode = "add" THEN AddEach(<<>>, indices)
  ELSE DeleteEach(current, indices)

\* selectByRegion whose 'add' branch toggles the members of the region.
SelectByRegionResult_AddToggles(current, indices, mode) ==
  IF mode = "replace" THEN NewSet(indices)
  ELSE IF mode = "add"
  THEN SelectSeq(current, LAMBDA x : x \notin SetOf(indices))
         \o SelectSeq(NewSet(indices), LAMBDA x : x \notin SetOf(current))
  ELSE DeleteEach(current, indices)

\* selectByRegion: the set it publishes.
SelectByRegionResult(current, indices, mode) ==
  IF mode = "replace" THEN NewSet(indices)
  ELSE IF mode = "add" THEN AddEach(current, indices)
  ELSE DeleteEach(current, indices)

\* selectAll that stops one episode short.
SelectAllResult_SkipsLast(current, data) ==
  IF data # NIL THEN NewSet(Range(data.n_episodes - 1)) ELSE current

\* selectAll: the set it publishes (unchanged when no data is loaded).
SelectAllResult(current, data) ==
  IF data # NIL THEN NewSet(Range(data.n_episodes)) ELSE current

\* const initialState = {...}
InitialStore ==
  /\ project = NULL
  /\ visualizationData = NIL
  /\ isVisualizationLoading = FALSE
  /\ selectedIndices = <<>>
  /\ lastSamplingResult = NIL
  /\ showSelectedOnly = FALSE
  /\ metadataFilters = <<>>
  /\ clusterLabels = NIL
  /\ clusterMetadata = NIL
  /\ error = NULL

\* The control panel's filter form as it mounts.
FormMounted ==
  /\ selectedField = ""
  /\ selectedOperator = "equals"
  /\ filterValue = ""

\* The scatter plot as it mounts, its overlay not drawing.
PlotMounted ==
  /\ interactionMode = "select"
  /\ modifierKey = NULL
  /\ keysDown = {}
  /\ isDrawing = FALSE
  /\ startPoint = <<>>
  /\ currentPoint = <<>>
  /\ lassoPath = <<>>
  /\ captured = <<>>
  /\ outcome = NIL

\* ------------------------------------------------------------ routing
Keys == {"project", "visualization"}

\* The dashboard renders the plot and the panels for project p.
Displayed(p) ==
  /\ projectId = p
  /\ p # NULL
  /\ \A k \in Keys : queries[<<k, p>>] = "success"

\* Math.min(a, b)
Min(a, b) == IF a <= b THEN a ELSE b

\* Math.max(a, b)
Max(a, b) == IF a >= b THEN a ELSE b

\* The sampling panel's initial slider value is Math.min(100, n_episodes).
DefaultSamples == 100

\* The sampling panel's local state: as it mounts for a dataset of n
\* episodes (hasEmbeddings defaults to true), and while the dashboard
\* shows no data and the panel is not rendered.
MountedPanel(n) == <<"kmeans", Min(DefaultSamples, n), "idle", <<>>>>
NoPanel == <<NULL, 0, "idle", <<>>>>
PanelFor(pid, qs) ==
  IF pid # NULL /\ \A k \in Keys : qs[<<k, pid>>] = "success"
  THEN MountedPanel(NEpisodes(pid)) ELSE NoPanel

PanelIs(t) ==
  /\ strategy = t[1]
  /\ nSamples = t[2]
  /\ mutationStatus = t[3]
  /\ inFlight = t[4]

PanelBecomes(t) ==
  /\ strategy' = t[1]
  /\ nSamples' = t[2]
  /\ mutationStatus' = t[3]
  /\ inFlight' = t[4]

\* The user opens /project/p (or Home, p = NULL). A query that has no
\* data yet starts fetching; useVisualization's queryFn begins by
\* setVisualizationLoading(true).
Navigate(p) ==
  /\ p # projectId
  /\ projectId' = p
  /\ queries' = [q \in DOMAIN queries |->
                   IF q[2] = p /\ queries[q] = "idle" THEN "fetching"
                   ELSE queries[q]]
  /\ isVisualizationLoading' =
       IF p # NULL /\ queries[<<"visualization", p>>] = "idle"
       THEN TRUE ELSE isVisualizationLoading
  /\ lastCall' = IF p # NULL /\ queries[<<"visualization", p>>] = "idle"
                 THEN "setVisualizationLoading" ELSE "navigate"
  /\ UNCHANGED <<project, visualizationData, selectedIndices,
                 lastSamplingResult, showSelectedOnly, clusterVars, error>>
  /\ PanelBecomes(PanelFor(projectId', queries'))
  /\ UNCHANGED <<plotVars, heapVars, filterVars, formVars>>

\* useProject's queryFn resumes after getProject: setProject(project).
ProjectFetched(p) ==
  /\ queries[<<"project", p>>] = "fetching"
  /\ queries' = [queries EXCEPT ![<<"project", p>>] = "success"]
  /\ project' = p
  /\ lastCall' = "setProject"
  /\ UNCHANGED <<visualizationData, isVisualizationLoading, selectedIndices,
                 lastSamplingResult, showSelectedOnly, clusterVars, error,
                 projectId>>
  /\ PanelBecomes(PanelFor(projectId', queries'))
  /\ UNCHANGED <<plotVars, heapVars, filterVars, formVars>>

\* useVisualization's queryFn resumes after getVisualization:
\* setVisualizationData(data), then finally setVisualizationLoading(false).
VisualizationFetched(p) ==
  /\ queries[<<"visualization", p>>] = "fetching"
  /\ queries' = [queries EXCEPT ![<<"visualization", p>>] = "success"]
  /\ visualizationData' = Dataset(p)
  /\ isVisualizationLoading' = FALSE
  /\ lastCall' = "setVisualizationData"
  /\ UNCHANGED <<project, selectedIndices, lastSamplingResult,
                 showSelectedOnly, clusterVars, error, projectId>>
  /\ PanelBecomes(PanelFor(projectId', queries'))
  /\ UNCHANGED <<plotVars, heapVars, filterVars, formVars>>

\* ------------------------------------------------------------ store calls
\* Every caller of the selection transitions is a component of the
\* dashboard, rendered with the query data of the project on display.
ToggleSelection(index) ==
  /\ selectedIndices' = ToggleResult(selectedIndices, index)
  /\ lastCall' = "toggleSelection"
  /\ UNCHANGED selectionFrame

SelectAll ==
  /\ selectedIndices' = SelectAllResult(selectedIndices, visualizationData)
  /\ lastCall' = "selectAll"
  /\ UNCHANGED selectionFrame

ClearSelection ==
  /\ selectedIndices' = <<>>
  /\ lastCall' = "clearSelection"
  /\ UNCHANGED selectionFrame

SelectIndices(indices) ==
  /\ selectedIndices' = NewSet(indices)
  /\ lastCall' = "selectIndices"
  /\ UNCHANGED selectionFrame

SelectByRegion(indices, mode) ==
  /\ lastCall' = mode
  /\ selectedIndices' = SelectByRegionResult(selectedIndices, indices, mode)
  /\ UNCHANGED selectionFrame

\* The control panel's "show selected only" button.
SetShowSelectedOnly(show) ==
  /\ showSelectedOnly' = show
  /\ lastCall' = "setShowSelectedOnly"
  /\ UNCHANGED <<dataVars, selectedIndices, lastSamplingResult, clusterVars,
                 error, navVars, panelVars>>
  /\ UNCHANGED <<plotVars, heapVars, filterVars, formVars>>

\* ------------------------------------------------------------ Set objects
\* The store's selection transitions step by step, on a heap of Set
\* objects: a transition reads state.selectedIndices, builds newSelection
\* and hands it to set(). A reader (a render, the statistics, an export)
\* may take state.selectedIndices at any step.

\* The most Set objects alive at once.
MaxObjects == 3
ObjIds == 1..MaxObjects

\* create(...): state.selectedIndices is the one Set alive, and empty.
HeapCreated ==
  /\ heap = [o \in ObjIds |-> <<>>]
  /\ storeRef = 1
  /\ newRef = 0
  /\ pc = "idle"
  /\ todo = <<>>
  /\ readerRef = 0
  /\ readerSeen = <<>>
  /\ preSet = <<>>
  /\ postSet = <<>>

\* ------------------------------------------------------------ Spec
Init ==
  /\ InitialStore
  /\ projectId = NULL
  /\ queries = [q \in Keys \X Projects |-> "idle"]
  /\ PanelIs(NoPanel)
  /\ PlotMounted
  /\ FormMounted
  /\ HeapCreated
  /\ lastCall = "create"

UserSelects ==
  \E p \in Projects :
    /\ Displayed(p)
    /\ \/ \E i \in 0..(NEpisodes(p) - 1) : ToggleSelection(i)
       \/ SelectAll
       \/ ClearSelection
       \/ \E l \in IndexLists(NEpisodes(p)) : SelectIndices(l)
       \/ \E l \in IndexLists(NEpisodes(p)), m \in Modes : SelectByRegion(l, m)
       \/ SetShowSelectedOnly(~showSelectedOnly)

Next ==
  \/ \E p \in Projects \cup {NULL} : Navigate(p)
  \/ \E p \in Projects : ProjectFetched(p)
  \/ \E p \in Projects : VisualizationFetched(p)
  \/ UserSelects

Spec == Init /\ [][Next]_vars

\* ------------------------------------------------------------ SpecStore
\* A dashboard that shows project p, its queries answered.
Showing(p) ==
  /\ project = p
  /\ visualizationData = Dataset(p)
  /\ isVisualizationLoading = FALSE
  /\ selectedIndices = <<>>
  /\ lastSamplingResult = NIL
  /\ showSelectedOnly = FALSE
  /\ metadataFilters = <<>>
  /\ clusterLabels = NIL
  /\ clusterMetadata = NIL
  /\ error = NULL
  /\ projectId = p
  /\ queries = [q \in Keys \X Projects |->
                  IF q[2] = p THEN "success" ELSE "idle"]
  /\ PanelIs(MountedPanel(NEpisodes(p)))
  /\ PlotMounted
  /\ FormMounted
  /\ HeapCreated
  /\ lastCall = "setVisualizationData"

\* The store of a dashboard that shows one project: the selection
\* transitions alone, for the claims about what each of them computes.
InitStore == \E p \in Projects : Showing(p)

NextStore == UserSelects

SpecStore == InitStore /\ [][NextStore]_vars

\* ------------------------------------------------------------ metadata
\* A metadata or filter value with its typeof; JsNull is a JSON null in a
\* column, Undefined what reading past the end of a column gives. (NaN is
\* left out: JSON columns hold none and handleAddFilter refuses it.)
Bool(b) == [t |-> "boolean", v |-> b]
Num(n) == [t |-> "number", v |-> n]
Str(x) == [t |-> "string", v |-> x]
Arr(items) == [t |-> "array", v |-> items]
JsNull == [t |-> "null", v |-> 0]
Undefined == [t |-> "undefined", v |-> 0]

\* data.metadata of the two datasets. Project A has a boolean column, a
\* numeric column whose last entry is null and a string column one entry
\* short; project B carries no metadata.
Metadata(p) ==
  IF p = "A"
  THEN [field \in {"success", "episode_length", "task"} |->
          CASE field = "success" ->
                 [i \in 1..NEpisodes(p) |-> Bool(i % 2 = 1)]
            [] field = "episode_length" ->
                 [i \in 1..NEpisodes(p) |->
                    IF i = NEpisodes(p) THEN JsNull ELSE Num(i)]
            [] field = "task" ->
                 [i \in 1..(NEpisodes(p) - 1) |->
                    Str(IF i = 1 THEN "a" ELSE "b")]]
  ELSE [field \in {} |-> <<>>]

\* a === b for the values above (an array is equal only to itself, and
\* no column value is the filter's array).
StrictEquals(a, b) == a.t = b.t /\ a.t # "array" /\ a.v = b.v

\* Array.prototype.includes
Includes(items, value) ==
  \E k \in 1..Len(items) : StrictEquals(items[k], value)

Operators == {"equals", "not_equals", "in", "gt", "lt", "gte", "lte"}

\* An evaluateFilter whose 'in' passes when the filter value is no array.
EvaluateFilter_InFailsOpen(value, filter) ==
  LET operator == filter.operator
      filterVal == filter.value
      numbers == value.t = "number" /\ filterVal.t = "number"
  IN CASE operator = "equals" -> StrictEquals(value, filterVal)
       [] operator = "not_equals" -> ~StrictEquals(value, filterVal)
       [] operator = "in" ->
            IF filterVal.t = "array" THEN Includes(filterVal.v, value)
            ELSE TRUE
       [] operator = "gt" -> IF numbers THEN value.v > filterVal.v ELSE FALSE
       [] operator = "lt" -> IF numbers THEN value.v < filterVal.v ELSE FALSE
       [] operator = "gte" -> IF numbers THEN value.v >= filterVal.v ELSE FALSE
       [] operator = "lte" -> IF numbers THEN value.v <= filterVal.v ELSE FALSE
       [] OTHER -> TRUE

\* evaluateFilter
EvaluateFilter(value, filter) ==
  LET operator == filter.operator
      filterVal == filter.value
      numbers == value.t = "number" /\ filterVal.t = "number"
  IN CASE operator = "equals" -> StrictEquals(value, filterVal)
       [] operator = "not_equals" -> ~StrictEquals(value, filterVal)
       [] operator = "in" ->
            IF filterVal.t = "array" THEN Includes(filterVal.v, value)
            ELSE FALSE
       [] operator = "gt" -> IF numbers THEN value.v > filterVal.v ELSE FALSE
       [] operator = "lt" -> IF numbers THEN value.v < filterVal.v ELSE FALSE
       [] operator = "gte" -> IF numbers THEN value.v >= filterVal.v ELSE FALSE
       [] operator = "lte" -> IF numbers THEN value.v <= filterVal.v ELSE FALSE
       [] OTHER -> TRUE

\* fieldValues[idx]
ValueAt(fieldValues, idx) ==
  IF idx + 1 \in DOMAIN fieldValues THEN fieldValues[idx + 1] ELSE Undefined

\* A filter loop that lets a missing field pass.
RECURSIVE PassesAll_MissingFieldPasses(_, _, _)
PassesAll_MissingFieldPasses(metadata, filters, idx) ==
  IF filters = <<>> THEN TRUE
  ELSE LET filter == Head(filters)
       IN IF filter.field \notin DOMAIN metadata
          THEN PassesAll_MissingFieldPasses(metadata, Tail(filters), idx)
          ELSE LET value == ValueAt(metadata[filter.field], idx)
               IN IF value.t \in {"null", "undefined"} THEN FALSE
                  ELSE IF ~EvaluateFilter(value, filter) THEN FALSE
                  ELSE PassesAll_MissingFieldPasses(metadata, Tail(filters), idx)

\* for (const filter of filters) { ... }: passesAll after the loop, which
\* breaks at the first filter the episode fails.
RECURSIVE PassesAll(_, _, _)
PassesAll(metadata, filters, idx) ==
  IF filters = <<>> THEN TRUE
  ELSE LET filter == Head(filters)
       IN IF filter.field \notin DOMAIN metadata THEN FALSE
          ELSE LET value == ValueAt(metadata[filter.field], idx)
               IN IF value.t \in {"null", "undefined"} THEN FALSE
                  ELSE IF ~EvaluateFilter(value, filter) THEN FALSE
                  ELSE PassesAll(metadata, Tail(filters), idx)

\* applyFilters: the Set it returns, empty when there is no filter.
ApplyFilters(metadata, filters, episodeCount) ==
  IF Len(filters) = 0 THEN <<>>
  ELSE SelectSeq(Range(episodeCount),
                 LAMBDA idx : PassesAll(metadata, filters, idx))

\* What a filter transition of the store leaves alone.
filterFrame == <<dataVars, selectedIndices, lastSamplingResult,
                 showSelectedOnly, clusterVars, error, navVars, panelVars,
                 plotVars, heapVars>>

\* The most filters active at once.
MaxFilters == 2

\* The MetadataFilter objects a caller can pass: any field (one of them
\* in no dataset), any operator, and a boolean, a number, a string or an
\* array as the value.
FilterFields == {"success", "episode_length", "task", "missing"}
FilterValues == {Bool(TRUE), Num(1), Str("a"), Arr(<<Str("a")>>)}
MetadataFilters ==
  [field : FilterFields, operator : Operators, value : FilterValues]

\* addMetadataFilter (it leaves the form to its caller)
AddMetadataFilter(filter) ==
  /\ Len(metadataFilters) < MaxFilters
  /\ metadataFilters' = Append(metadataFilters, filter)
  /\ lastCall' = "addMetadataFilter"
  /\ UNCHANGED filterFrame

\* removeMetadataFilter: current.filter((_, i) => i !== index)
RemoveMetadataFilter(index) ==
  /\ index \in 0..(Len(metadataFilters) - 1)
  /\ metadataFilters' =
       [j \in 1..(Len(metadataFilters) - 1) |->
          IF j < index + 1 THEN metadataFilters[j] ELSE metadataFilters[j + 1]]
  /\ lastCall' = "removeMetadataFilter"
  /\ UNCHANGED <<filterFrame, formVars>>

\* clearMetadataFilters (the Clear All button shows with a filter active)
ClearMetadataFilters ==
  /\ Len(metadataFilters) > 0
  /\ metadataFilters' = <<>>
  /\ lastCall' = "clearMetadataFilters"
  /\ UNCHANGED <<filterFrame, formVars>>

\* data.metadata and data.n_episodes of the dataset on display.
DataMetadata == Metadata(visualizationData.project)
DataEpisodes == visualizationData.n_episodes

\* ScatterPlot: the indices of its points.
PlotPoints ==
  LET filteredIndices == ApplyFilters(DataMetadata, metadataFilters, DataEpisodes)
  IN SelectSeq(Range(DataEpisodes),
               LAMBDA idx :
                 /\ ~(Len(metadataFilters) > 0 /\ idx \notin SetOf(filteredIndices))
                 /\ ~(showSelectedOnly /\ idx \notin SetOf(selectedIndices)))

\* ThumbnailGallery: filteredIndices.
GalleryIndices ==
  LET all == Range(DataEpisodes)
      passedSet == ApplyFilters(DataMetadata, metadataFilters, DataEpisodes)
      indices == IF Len(metadataFilters) > 0 /\ Len(passedSet) > 0
                 THEN SelectSeq(all, LAMBDA i : i \in SetOf(passedSet))
                 ELSE all
  IN IF showSelectedOnly /\ Len(selectedIndices) > 0
     THEN SelectSeq(indices, LAMBDA i : i \in SetOf(selectedIndices))
     ELSE indices

\* SamplingPanel: filteredIndices (NIL for null), as [indices |-> ...].
PanelFilteredIndices ==
  IF Len(metadataFilters) = 0 THEN NIL
  ELSE LET passedIndices ==
             ApplyFilters(DataMetadata, metadataFilters, DataEpisodes)
       IN IF Len(passedIndices) > 0 THEN [indices |-> passedIndices] ELSE NIL

\* SamplingPanel: availableCount.
AvailableCount ==
  IF PanelFilteredIndices # NIL THEN Len(PanelFilteredIndices.indices)
  ELSE DataEpisodes

\* ------------------------------------------------------------ SpecFilterEngine
\* The filter list of a dashboard that shows project A, under the store's
\* filter transitions called with any MetadataFilter.
InitFilterEngine == Showing("A")

NextFilterEngine ==
  \/ \E filter \in MetadataFilters :
       AddMetadataFilter(filter) /\ UNCHANGED formVars
  \/ \E index \in 0..(MaxFilters - 1) : RemoveMetadataFilter(index)
  \/ ClearMetadataFilters

SpecFilterEngine == InitFilterEngine /\ [][NextFilterEngine]_vars

\* ------------------------------------------------------------ filter form
\* inferFieldType: the type of the first value that is not null.
RECURSIVE InferFieldType(_)
InferFieldType(values) ==
  IF values = <<>> THEN "string"
  ELSE LET val == Head(values)
       IN IF val.t \notin {"null", "undefined"}
          THEN IF val.t = "boolean" THEN "boolean"
               ELSE IF val.t = "number" THEN "numeric"
               ELSE "string"
          ELSE InferFieldType(Tail(values))

\* getOperatorsForType
GetOperatorsForType(fieldType) ==
  CASE fieldType = "boolean" -> {"equals", "not_equals"}
    [] fieldType = "numeric" ->
         {"equals", "not_equals", "gt", "lt", "gte", "lte"}
    [] fieldType = "string" -> {"equals", "not_equals", "in"}
    [] OTHER -> {"equals", "not_equals"}

\* What the user enters as the filter value.
FilterTexts == {"true", "1"}

\* parseFloat on these texts: <<n>> for a number, <<>> for NaN.
ParseFloat(text) == IF text = "1" THEN <<1>> ELSE <<>>

\* filterValue.split(',').map(v => v.trim()): these texts hold no comma
\* and no blank.
SplitTrim(text) == <<Str(text)>>

\* fieldType and availableOperators of the render.
FieldType ==
  IF selectedField # "" THEN InferFieldType(DataMetadata[selectedField])
  ELSE "string"
AvailableOperators == GetOperatorsForType(FieldType)

\* A field select that leaves the operator as it was.
OperatorAfterFieldChange_Keeps(current) == current

\* The field select's onChange: setSelectedOperator('equals').
OperatorAfterFieldChange(current) == "equals"

\* The field select's onChange; its options are '' and the metadata
\* columns.
SetSelectedField(field) ==
  /\ field \in {""} \cup DOMAIN DataMetadata
  /\ selectedField' = field
  /\ selectedOperator' = OperatorAfterFieldChange(selectedOperator)
  /\ filterValue' = ""
  /\ lastCall' = "setSelectedField"
  /\ UNCHANGED <<filterFrame, filterVars>>

\* The operator select's onChange; the select is rendered once a field is
\* chosen and its options are availableOperators.
SetSelectedOperator(operator) ==
  /\ selectedField # ""
  /\ operator \in AvailableOperators
  /\ selectedOperator' = operator
  /\ lastCall' = "setSelectedOperator"
  /\ UNCHANGED <<filterFrame, filterVars, selectedField, filterValue>>

\* The value control's onChange: a select of '', true and false for a
\* boolean field, a number input for a numeric one (its value is '' or
\* a number's text), a text input otherwise.
SetFilterValue(text) ==
  /\ selectedField # ""
  /\ FieldType = "boolean" => text \in {"", "true", "false"}
  /\ FieldType = "numeric" => text = "" \/ ParseFloat(text) # <<>>
  /\ filterValue' = text
  /\ lastCall' = "setFilterValue"
  /\ UNCHANGED <<filterFrame, filterVars, selectedField, selectedOperator>>

\* handleAddFilter (the Add Filter button)
HandleAddFilter ==
  IF selectedField = "" \/ filterValue = ""
  THEN UNCHANGED vars
  ELSE IF FieldType = "numeric" /\ ParseFloat(filterValue) = <<>>
  THEN UNCHANGED vars
  ELSE /\ AddMetadataFilter(
            [field |-> selectedField,
             operator |-> selectedOperator,
             value |->
               IF FieldType = "boolean" THEN Bool(filterValue = "true")
               ELSE IF FieldType = "numeric"
                    THEN Num(ParseFloat(filterValue)[1])
               ELSE IF selectedOperator = "in" THEN Arr(SplitTrim(filterValue))
               ELSE Str(filterValue)])
       /\ filterValue' = ""
       /\ UNCHANGED <<selectedField, selectedOperator>>

\* ------------------------------------------------------------ SpecFilterPanel
\* The control panel of a dashboard that shows project A: its filter
\* form and filter list, its Select All button, and clicks on the plot's
\* points.
InitFilterPanel == Showing("A")

NextFilterPanel ==
  \/ \E field \in FilterFields \cup {""} : SetSelectedField(field)
  \/ \E operator \in Operators : SetSelectedOperator(operator)
  \/ \E text \in FilterTexts \cup {""} : SetFilterValue(text)
  \/ HandleAddFilter
  \/ \E index \in 0..(MaxFilters - 1) : RemoveMetadataFilter(index)
  \/ ClearMetadataFilters
  \/ SelectAll
  \/ \E i \in 0..(NEpisodes("A") - 1) : ToggleSelection(i)

SpecFilterPanel == InitFilterPanel /\ [][NextFilterPanel]_vars

\* ------------------------------------------------------------ selection statistics
\* Object.entries(metadata): the columns in the order the dataset lists
\* them.
FieldOrder == <<"success", "episode_length", "task">>
MetadataEntries(metadata) ==
  SelectSeq(FieldOrder, LAMBDA field : field \in DOMAIN metadata)

\* Array.from(selectedIndices).map(idx => allValues[idx])
\*   .filter(v => v !== null && v !== undefined)
SelectedValues(allValues, selected) ==
  SelectSeq([k \in 1..Len(selected) |-> ValueAt(allValues, selected[k])],
            LAMBDA v : v.t \notin {"null", "undefined"})

\* inferFieldType of the statistics (api.ts): the typeof of the first
\* non-null value, 'categorical' when there is none.
RECURSIVE StatsInferFieldType(_)
StatsInferFieldType(values) ==
  IF values = <<>> THEN "categorical"
  ELSE LET val == Head(values)
       IN IF val.t \notin {"null", "undefined"}
          THEN IF val.t = "boolean" THEN "boolean"
               ELSE IF val.t = "number" THEN "numeric"
               ELSE "categorical"
          ELSE StatsInferFieldType(Tail(values))

\* A percentage that drops the fraction.
RoundPercent_Floors(count, total) == (100 * count) \div total

\* Math.round((count / total) * 100), total > 0: the nearest integer, a
\* half rounded up.
RoundPercent(count, total) == (200 * count + total) \div (2 * total)

\* computeBooleanStats
ComputeBooleanStats(field, values) ==
  LET trueCount == Len(SelectSeq(values, LAMBDA v : StrictEquals(v, Bool(TRUE))))
      falseCount == Len(SelectSeq(values, LAMBDA v : StrictEquals(v, Bool(FALSE))))
      total == trueCount + falseCount
  IN [field |-> field, type |-> "boolean",
      trueCount |-> trueCount, falseCount |-> falseCount,
      truePercent |-> IF total > 0 THEN RoundPercent(trueCount, total) ELSE 0,
      falsePercent |-> IF total > 0 THEN RoundPercent(falseCount, total) ELSE 0]

\* values.reduce((acc, val) => acc + val, 0)
RECURSIVE Sum(_)
Sum(values) == IF values = <<>> THEN 0 ELSE Head(values).v + Sum(Tail(values))

\* computeNumericStats; the mean is kept as the fraction sum / length.
ComputeNumericStats(field, values) ==
  LET validValues == SelectSeq(values, LAMBDA v : v.t = "number")
      members == {validValues[k].v : k \in 1..Len(validValues)}
  IN IF Len(validValues) = 0
     THEN [field |-> field, type |-> "numeric", min |-> 0, max |-> 0,
           mean |-> [num |-> 0, den |-> 1]]
     ELSE [field |-> field, type |-> "numeric",
           min |-> CHOOSE x \in members : \A y \in members : x <= y,
           max |-> CHOOSE x \in members : \A y \in members : x >= y,
           mean |-> [num |-> Sum(validValues), den |-> Len(validValues)]]

\* String(n) of a whole number.
RECURSIVE Decimal(_)
Decimal(n) ==
  IF n < 0 THEN "-" \o Decimal(-n)
  ELSE IF n >= 10 THEN Decimal(n \div 10) \o Decimal(n % 10)
  ELSE CASE n = 0 -> "0" [] n = 1 -> "1" [] n = 2 -> "2" [] n = 3 -> "3"
         [] n = 4 -> "4" [] n = 5 -> "5" [] n = 6 -> "6" [] n = 7 -> "7"
         [] n = 8 -> "8" [] n = 9 -> "9"

\* String(val) of a column value.
StringOf(val) ==
  CASE val.t = "string" -> val.v
    [] val.t = "number" -> Decimal(val.v)
    [] val.t = "boolean" -> IF val.v THEN "true" ELSE "false"
    [] val.t = "null" -> "null"
    [] val.t = "undefined" -> "undefined"

\* .sort((a, b) => b.count - a.count): by count, descending; the sort is
\* stable, so entries of equal count keep the order they had.
RECURSIVE SortByCount(_)
SortByCount(entries) ==
  IF entries = <<>> THEN <<>>
  ELSE LET rest == SortByCount(Tail(entries))
           e == Head(entries)
           before == SelectSeq(rest, LAMBDA f : f.count > e.count)
           after == SelectSeq(rest, LAMBDA f : f.count <= e.count)
       IN before \o <<e>> \o after

\* computeCategoricalStats: counts is a Map, its keys in the order the
\* values first occur; percent is kept as the fraction count * 100 / total.
ComputeCategoricalStats(field, values) ==
  LET keys == NewSet([k \in 1..Len(values) |-> StringOf(values[k])])
      total == Len(values)
      Count(key) == Len(SelectSeq(values, LAMBDA v : StringOf(v) = key))
  IN [field |-> field, type |-> "categorical",
      categories |->
        SortByCount([k \in 1..Len(keys) |->
                       [value |-> keys[k], count |-> Count(keys[k]),
                        percent |-> [num |-> Count(keys[k]) * 100,
                                     den |-> total]]])]

\* The loop of computeSelectionStats over the entries from fields on.
RECURSIVE StatsOfFields(_, _, _)
StatsOfFields(metadata, fields, selected) ==
  IF fields = <<>> THEN <<>>
  ELSE LET field == Head(fields)
           selectedValues == SelectedValues(metadata[field], selected)
           type == StatsInferFieldType(selectedValues)
           rest == StatsOfFields(metadata, Tail(fields), selected)
       IN IF Len(selectedValues) = 0 THEN rest
          ELSE IF type = "boolean"
          THEN <<ComputeBooleanStats(field, selectedValues)>> \o rest
          ELSE IF type = "numeric"
          THEN <<ComputeNumericStats(field, selectedValues)>> \o rest
          ELSE <<ComputeCategoricalStats(field, selectedValues)>> \o rest

\* computeSelectionStats(metadata, selectedIndices)
ComputeSelectionStats(metadata, selected) ==
  IF Len(selected) = 0 THEN <<>>
  ELSE StatsOfFields(metadata, MetadataEntries(metadata), selected)

\* SelectionStats: the stats the panel computes for the store's selection.
SelectionStats == ComputeSelectionStats(DataMetadata, selectedIndices)

\* ------------------------------------------------------------ sampling
Strategies == {"kmeans", "stratified", "random", "cluster"}

\* setLastSamplingResult that merges the result into the selection.
SamplingSelection_Merges(current, result) ==
  IF result # NIL THEN AddEach(current, result.selected_indices) ELSE current

\* setLastSamplingResult: the selection it leaves.
SamplingSelection(current, result) ==
  IF result # NIL THEN NewSet(result.selected_indices) ELSE current

\* The distinct values of a set, ascending: Object.keys(clusterGroups)
\* lists integer keys in ascending order.
RECURSIVE Ascending(_)
Ascending(S) ==
  IF S = {} THEN <<>>
  ELSE LET m == CHOOSE x \in S : \A y \in S : x <= y
       IN <<m>> \o Ascending(S \ {m})

\* A grouping that does not skip the noise label.
ClusterIdsOf_KeepsNoise(labels) ==
  Ascending({labels[k] : k \in 1..Len(labels)})

\* clusterIds: the labels present, the noise label -1 skipped.
ClusterIdsOf(labels) ==
  Ascending({labels[k] : k \in 1..Len(labels)} \ {-1})

\* clusterGroups[label]: the indices carrying the label, ascending.
ClusterGroup(labels, label) ==
  SelectSeq(Range(Len(labels)), LAMBDA idx : labels[idx + 1] = label)

\* a % b of JavaScript, b > 0: the remainder has the sign of a.
JsRemainder(a, b) == IF a >= 0 THEN a % b ELSE -((-a) % b)

\* An allocation that gives the extra slots to the last clusters.
SamplesToTake_ExtraToLast(n, k, clusterIdx) ==
  (n \div k) + (IF clusterIdx >= k - JsRemainder(n, k) THEN 1 ELSE 0)

\* samplesPerCluster + (clusterIdx < remainder ? 1 : 0), with
\* samplesPerCluster = Math.floor(nSamples / k), remainder = nSamples % k.
SamplesToTake(n, k, clusterIdx) ==
  (n \div k) + (IF clusterIdx < JsRemainder(n, k) THEN 1 ELSE 0)

\* shuffled.slice(0, actualSamples): that many distinct members of the
\* cluster in any order (the comparator is random); a negative end counts
\* from the end of the array.
ShuffledSlices(members, actualSamples) ==
  LET count == IF actualSamples >= 0 THEN Min(actualSamples, Len(members))
               ELSE Max(Len(members) + actualSamples, 0)
  IN {q \in [1..count -> SetOf(members)] :
        \A a, b \in 1..count : a # b => q[a] # q[b]}

\* The lists clusterIds.forEach can push, from cluster clusterIdx on.
RECURSIVE ClusterDraws(_, _, _, _)
ClusterDraws(labels, clusterIds, clusterIdx, n) ==
  IF clusterIdx >= Len(clusterIds) THEN {<<>>}
  ELSE LET clusterIndices == ClusterGroup(labels, clusterIds[clusterIdx + 1])
           samplesToTake == SamplesToTake(n, Len(clusterIds), clusterIdx)
           actualSamples == Min(samplesToTake, Len(clusterIndices))
       IN {h \o t : h \in ShuffledSlices(clusterIndices, actualSamples),
                     t \in ClusterDraws(labels, clusterIds, clusterIdx + 1, n)}

\* coverageScore = clusterIds.length / (n_clusters || clusterIds.length),
\* kept as a fraction.
CoverageScore(k, metadata) ==
  [num |-> k,
   den |-> IF metadata # NIL /\ metadata.n_clusters # 0
           THEN metadata.n_clusters ELSE k]

\* The results handleClusterSampling can hand to the store.
ClusterSamplingResults(labels, metadata, n) ==
  LET clusterIds == ClusterIdsOf(labels)
  IN {[selected_indices |-> l, strategy |-> "cluster",
       coverage_score |-> CoverageScore(Len(clusterIds), metadata)] :
        l \in ClusterDraws(labels, clusterIds, 0, n)}

\* The lists of distinct episodes of each project, up to MaxList long.
DistinctLists ==
  [p \in Projects |->
     {q \in IndexLists(NEpisodes(p)) : Len(NewSet(q)) = Len(q)}]

\* filter_indices: "If provided, sample only from these indices".
ServerSamplesFrom(request, l) ==
  request.filter_indices # NIL =>
    SetOf(l) \subseteq SetOf(request.filter_indices.indices)

\* The sampling service's answer to a request when it picks the distinct
\* episodes of list l; its coverage score is opaque to the panel.
ServerResult(request, l) ==
  [selected_indices |-> l, strategy |-> request.strategy,
   coverage_score |-> [num |-> 1, den |-> 1]]

\* The clustering service's answers for n episodes: k-means into k
\* clusters, and a density clustering that leaves episode 0 as noise.
ClusterResponses(n) ==
  {[labels |-> [i \in 1..n |-> (i - 1) % k], n_clusters |-> k] :
     k \in 1..MaxClusters}
  \cup {[labels |-> [i \in 1..n |-> IF i = 1 THEN -1 ELSE 0], n_clusters |-> 1]}

\* useClustering onSuccess: setClusterLabels, setClusterMetadata.
ClusteringSuccess(response) ==
  /\ clusterLabels' = [labels |-> response.labels]
  /\ clusterMetadata' = [n_clusters |-> response.n_clusters]
  /\ lastCall' = "setClusterMetadata"
  /\ UNCHANGED <<dataVars, selectedIndices, lastSamplingResult,
                 showSelectedOnly, error, navVars, panelVars>>
  /\ UNCHANGED <<plotVars, heapVars, filterVars, formVars>>

\* Object.keys(data.metadata) of the dataset the panel is given.
MetadataColumns == DOMAIN DataMetadata

\* An <option> of the strategy selector is not disabled (hasEmbeddings
\* keeps its default, true).
StrategyAvailable(s) ==
  /\ s = "stratified" => MetadataColumns # {}
  /\ s = "cluster" => clusterLabels # NIL

SetStrategy(s) ==
  /\ StrategyAvailable(s)
  /\ s # strategy
  /\ strategy' = s
  /\ UNCHANGED <<dataVars, selectedIndices, lastSamplingResult,
                 showSelectedOnly, clusterVars, error, navVars, nSamples,
                 mutationStatus, inFlight, lastCall>>
  /\ UNCHANGED <<plotVars, heapVars, filterVars, formVars>>

\* The slider: min 1, max availableCount.
SetNSamples(n) ==
  /\ n \in 1..AvailableCount
  /\ n # nSamples
  /\ nSamples' = n
  /\ UNCHANGED <<dataVars, selectedIndices, lastSamplingResult,
                 showSelectedOnly, clusterVars, error, navVars, strategy,
                 mutationStatus, inFlight, lastCall>>
  /\ UNCHANGED <<plotVars, heapVars, filterVars, formVars>>

\* The request samplingMutation.mutate sends (filter_indices is NIL for
\* undefined), with the project it goes to and, as bookkeeping that is
\* not sent, the filters active when it is made.
SamplingRequest ==
  [projectId |-> projectId,
   strategy |-> strategy,
   n_samples |-> nSamples,
   filter_indices |-> PanelFilteredIndices,
   activeFilters |-> metadataFilters]

\* A Generate Sample button that is never disabled.
SampleButtonEnabled_Always == TRUE

\* disabled={samplingMutation.isPending}
SampleButtonEnabled == mutationStatus # "pending"

\* handleSample: the cluster strategy runs handleClusterSampling on the
\* client (setLastSamplingResult(result), then selectIndices); the other
\* strategies send a request through samplingMutation.mutate.
HandleSample ==
  /\ SampleButtonEnabled
  /\ Len(inFlight) < MaxInFlight
  /\ IF strategy = "cluster"
     THEN IF clusterLabels = NIL
          THEN UNCHANGED <<selectedIndices, lastSamplingResult, panelVars,
                           lastCall>>
          ELSE /\ \E result \in ClusterSamplingResults(
                                   clusterLabels.labels, clusterMetadata, nSamples) :
                    /\ lastSamplingResult' = result
                    /\ LET afterSet == SamplingSelection(selectedIndices, result)
                       IN selectedIndices' =
                            SelectByRegionResult(afterSet,
                                                 result.selected_indices, "replace")
               /\ lastCall' = "selectIndices"
               /\ UNCHANGED panelVars
     ELSE /\ inFlight' = Append(inFlight, SamplingRequest)
          /\ mutationStatus' = "pending"
          /\ UNCHANGED <<selectedIndices, lastSamplingResult, strategy, nSamples,
                         lastCall>>
  /\ UNCHANGED <<dataVars, showSelectedOnly, clusterVars, error, navVars>>
  /\ UNCHANGED <<plotVars, heapVars, filterVars, formVars>>

\* A sequence without its k-th element.
Without(seq, k) == [j \in 1..(Len(seq) - 1) |-> IF j < k THEN seq[j] ELSE seq[j + 1]]

\* useSampling onSuccess: the answer to request k arrives, the service
\* having picked the episodes of list l, and setLastSamplingResult(result)
\* stores it and replaces the selection.
SamplingSuccess(k, l) ==
  /\ lastCall' = "setLastSamplingResult"
  /\ k \in 1..Len(inFlight)
  /\ l \in DistinctLists[inFlight[k].projectId]
  /\ ServerSamplesFrom(inFlight[k], l)
  /\ inFlight' = Without(inFlight, k)
  /\ mutationStatus' = IF k = Len(inFlight) THEN "success" ELSE mutationStatus
  /\ LET result == ServerResult(inFlight[k], l)
     IN /\ lastSamplingResult' = result
        /\ selectedIndices' = SamplingSelection(selectedIndices, result)
  /\ UNCHANGED <<dataVars, showSelectedOnly, clusterVars, error, navVars,
                 strategy, nSamples>>
  /\ UNCHANGED <<plotVars, heapVars, filterVars, formVars>>

\* useSampling onError: setError(message).
SamplingError(k) ==
  /\ k \in 1..Len(inFlight)
  /\ inFlight' = Without(inFlight, k)
  /\ mutationStatus' = IF k = Len(inFlight) THEN "error" ELSE mutationStatus
  /\ error' = "Sampling failed"
  /\ lastCall' = "setError"
  /\ UNCHANGED <<dataVars, selectedIndices, lastSamplingResult,
                 showSelectedOnly, clusterVars, navVars, strategy, nSamples>>
  /\ UNCHANGED <<plotVars, heapVars, filterVars, formVars>>

\* ------------------------------------------------------------ SpecSampling
\* The sampling panel of a dashboard that shows project B, with the
\* clustering service, the sampling service and the user's own selecting.
InitSampling == Showing("B")

NextSampling ==
  \/ \E response \in ClusterResponses(NEpisodes("B")) : ClusteringSuccess(response)
  \/ \E s \in Strategies : SetStrategy(s)
  \/ \E n \in 1..NEpisodes("B") : SetNSamples(n)
  \/ HandleSample
  \/ \E k \in 1..MaxInFlight, l \in DistinctLists["B"] : SamplingSuccess(k, l)
  \/ \E k \in 1..MaxInFlight : SamplingError(k)
  \/ \E i \in 0..(NEpisodes("B") - 1) : ToggleSelection(i)
  \/ ClearSelection

SpecSampling == InitSampling /\ [][NextSampling]_vars

\* ------------------------------------------------------------ SpecClusterSampler
\* Client-side cluster sampling as a function of its inputs: any labels
\* over the episodes of project A (noise, and the clusters 0 to
\* MaxClusters - 1) and any sample count from -1 to one more than the
\* dataset holds, with the panel set to the cluster strategy.
LabelArrays(n) == [1..n -> (-1)..(MaxClusters - 1)]
SampleCounts == (-1)..(MaxEpisodes + 1)

InitClusterSampler ==
  /\ project = "A"
  /\ visualizationData = Dataset("A")
  /\ isVisualizationLoading = FALSE
  /\ selectedIndices = <<>>
  /\ lastSamplingResult = NIL
  /\ showSelectedOnly = FALSE
  /\ metadataFilters = <<>>
  /\ \E labels \in LabelArrays(NEpisodes("A")) :
       /\ clusterLabels = [labels |-> labels]
       /\ clusterMetadata = [n_clusters |-> Len(ClusterIdsOf(labels))]
  /\ error = NULL
  /\ projectId = "A"
  /\ queries = [q \in Keys \X Projects |->
                  IF q[2] = "A" THEN "success" ELSE "idle"]
  /\ strategy = "cluster"
  /\ nSamples \in SampleCounts
  /\ mutationStatus = "idle"
  /\ inFlight = <<>>
  /\ PlotMounted
  /\ FormMounted
  /\ HeapCreated
  /\ lastCall = "setClusterMetadata"

NextClusterSampler == HandleSample

SpecClusterSampler == InitClusterSampler /\ [][NextClusterSampler]_vars


\* The sampling panel of a dashboard that shows project A while the
\* control panel filters on the success column: clustering, the random
\* and cluster strategies, and the sampling service's answers.
InitFilteredSampling == Showing("A")

NextFilteredSampling ==
  \/ \E operator \in {"equals", "not_equals"} :
       /\ AddMetadataFilter([field |-> "success", operator |-> operator,
                             value |-> Bool(TRUE)])
       /\ UNCHANGED formVars
  \/ \E index \in 0..(MaxFilters - 1) : RemoveMetadataFilter(index)
  \/ ClearMetadataFilters
  \/ \E response \in ClusterResponses(NEpisodes("A")) : ClusteringSuccess(response)
  \/ \E s \in {"random", "cluster"} : SetStrategy(s)
  \/ HandleSample
  \/ \E k \in 1..MaxInFlight, l \in DistinctLists["A"] : SamplingSuccess(k, l)

SpecFilteredSampling == InitFilteredSampling /\ [][NextFilteredSampling]_vars

\* ------------------------------------------------------------ Set objects, step by step
\* The objects of refs keep their values, the others are garbage.
Collect(h, refs) == [o \in ObjIds |-> IF o \in refs THEN h[o] ELSE <<>>]

\* An object nothing refers to.
FreshObject ==
  LET free == ObjIds \ {storeRef, newRef, readerRef}
  IN CHOOSE o \in free : \A q \in free : o <= q

\* A transition that works on the store's own Set instead of a new one.
NewSetObject_InPlace == storeRef

\* new Set(...): the object newSelection refers to.
NewSetObject == FreshObject

\* const newSelection = new Set(...) holding the values of initial, with
\* the calls of steps still to make on it; post is the set the transition
\* is to publish.
BuildNewSelection(method, initial, steps, post) ==
  /\ pc = "idle"
  /\ LET o == NewSetObject
     IN /\ newRef' = o
        /\ heap' = [heap EXCEPT ![o] = initial]
  /\ todo' = steps
  /\ preSet' = heap[storeRef]
  /\ postSet' = post
  /\ pc' = "built"
  /\ lastCall' = method
  /\ UNCHANGED <<storeRef, readerRef, readerSeen, selectedIndices,
                 lastSamplingResult>>
  /\ UNCHANGED <<dataVars, showSelectedOnly, clusterVars, error, navVars,
                 panelVars, plotVars, filterVars, formVars>>

\* The calls indices.forEach makes on newSelection.
Calls(op, indices) == [k \in 1..Len(indices) |-> [op |-> op, idx |-> indices[k]]]

\* toggleSelection, up to its set() call.
CallToggleSelection(index) ==
  BuildNewSelection("toggleSelection", heap[storeRef],
                    <<[op |-> "toggle", idx |-> index]>>,
                    ToggleResult(heap[storeRef], index))

\* selectAll, up to its set() call.
CallSelectAll ==
  /\ visualizationData # NIL
  /\ BuildNewSelection("selectAll",
                       NewSet(Range(visualizationData.n_episodes)), <<>>,
                       SelectAllResult(heap[storeRef], visualizationData))

\* clearSelection, up to its set() call.
CallClearSelection == BuildNewSelection("clearSelection", <<>>, <<>>, <<>>)

\* selectIndices, up to its set() call.
CallSelectIndices(indices) ==
  BuildNewSelection("selectIndices", NewSet(indices), <<>>, NewSet(indices))

\* selectByRegion, up to its set() call.
CallSelectByRegion(indices, mode) ==
  BuildNewSelection(mode,
                    IF mode = "replace" THEN NewSet(indices) ELSE heap[storeRef],
                    IF mode = "replace" THEN <<>>
                    ELSE Calls(IF mode = "add" THEN "add" ELSE "delete", indices),
                    SelectByRegionResult(heap[storeRef], indices, mode))

\* setLastSamplingResult: its first call, set({ lastSamplingResult: result }).
CallSetLastSamplingResult(result) ==
  /\ pc = "idle"
  /\ lastSamplingResult' = result
  /\ preSet' = heap[storeRef]
  /\ postSet' = SamplingSelection(heap[storeRef], result)
  /\ pc' = "stored"
  /\ lastCall' = "setLastSamplingResult"
  /\ UNCHANGED <<heap, storeRef, newRef, todo, readerRef, readerSeen,
                 selectedIndices>>
  /\ UNCHANGED <<dataVars, showSelectedOnly, clusterVars, error, navVars,
                 panelVars, plotVars, filterVars, formVars>>

\* setLastSamplingResult: if (result) ... new Set(result.selected_indices).
BuildSamplingSelection ==
  /\ pc = "stored"
  /\ IF lastSamplingResult = NIL
     THEN /\ pc' = "idle"
          /\ UNCHANGED <<heap, newRef>>
     ELSE /\ pc' = "built"
          /\ LET o == NewSetObject
             IN /\ newRef' = o
                /\ heap' = [heap EXCEPT
                              ![o] = NewSet(lastSamplingResult.selected_indices)]
  /\ UNCHANGED <<storeRef, todo, readerRef, readerSeen, preSet, postSet,
                 selectedIndices, lastSamplingResult, lastCall>>
  /\ UNCHANGED <<dataVars, showSelectedOnly, clusterVars, error, navVars,
                 panelVars, plotVars, filterVars, formVars>>

\* One call on newSelection: add, delete, or toggleSelection's has-test.
Applied(step, s) ==
  IF step.op = "add" THEN SetAdd(s, step.idx)
  ELSE IF step.op = "delete" THEN SetDelete(s, step.idx)
  ELSE IF step.idx \in SetOf(s) THEN SetDelete(s, step.idx)
  ELSE SetAdd(s, step.idx)

\* The next call on newSelection.
MutateNewSelection ==
  /\ pc = "built"
  /\ todo # <<>>
  /\ heap' = [heap EXCEPT ![newRef] = Applied(Head(todo), @)]
  /\ todo' = Tail(todo)
  /\ UNCHANGED <<storeRef, newRef, pc, readerRef, readerSeen, preSet, postSet,
                 selectedIndices, lastSamplingResult, lastCall>>
  /\ UNCHANGED <<dataVars, showSelectedOnly, clusterVars, error, navVars,
                 panelVars, plotVars, filterVars, formVars>>

\* set({ selectedIndices: newSelection })
Publish ==
  /\ pc = "built"
  /\ todo = <<>>
  /\ storeRef' = newRef
  /\ selectedIndices' = heap[newRef]
  /\ newRef' = 0
  /\ heap' = Collect(heap, {newRef, readerRef})
  /\ pc' = "idle"
  /\ preSet' = postSet
  /\ UNCHANGED <<todo, readerRef, readerSeen, postSet, lastSamplingResult,
                 lastCall>>
  /\ UNCHANGED <<dataVars, showSelectedOnly, clusterVars, error, navVars,
                 panelVars, plotVars, filterVars, formVars>>

\* A reader takes state.selectedIndices (and lets go of the Set it held).
ReaderTakes ==
  /\ readerRef # storeRef
  /\ readerRef' = storeRef
  /\ readerSeen' = heap[storeRef]
  /\ heap' = Collect(heap, {storeRef, newRef})
  /\ UNCHANGED <<storeRef, newRef, pc, todo, preSet, postSet,
                 selectedIndices, lastSamplingResult, lastCall>>
  /\ UNCHANGED <<dataVars, showSelectedOnly, clusterVars, error, navVars,
                 panelVars, plotVars, filterVars, formVars>>

\* ------------------------------------------------------------ SpecAtomic
\* The store of a dashboard that shows project B, its transitions taken
\* step by step, with a reader.
InitAtomic == Showing("B")

NextAtomic ==
  \/ \E i \in 0..(NEpisodes("B") - 1) : CallToggleSelection(i)
  \/ CallSelectAll
  \/ CallClearSelection
  \/ \E l \in IndexLists(NEpisodes("B")) : CallSelectIndices(l)
  \/ \E l \in IndexLists(NEpisodes("B")), m \in Modes : CallSelectByRegion(l, m)
  \/ \E l \in DistinctLists["B"] :
       CallSetLastSamplingResult(
         ServerResult([strategy |-> "random"], l))
  \/ BuildSamplingSelection
  \/ MutateNewSelection
  \/ Publish
  \/ ReaderTakes

SpecAtomic == InitAtomic /\ [][NextAtomic]_vars

\* ------------------------------------------------------------ plot
\* Pointer positions on the overlay: columns 0..MaxCoord of two rows.
MaxCoord == 1
\* The longest lasso path a gesture draws.
MaxPath == 3

Positions == (0..MaxCoord) \X (0..1)

\* viewport.project(data.coordinates[idx]): where the view shows episode idx.
ScreenPoint(idx) == <<idx % (MaxCoord + 1), (idx \div (MaxCoord + 1)) % 2>>

\* A box test that takes (x1, y1) for the smaller corner.
IsPointInBox_AssumesOrdered(point, box) ==
  /\ point[1] >= box.x1 /\ point[1] <= box.x2
  /\ point[2] >= box.y1 /\ point[2] <= box.y2

\* isPointInBox
IsPointInBox(point, box) ==
  LET x == point[1]
      y == point[2]
      minX == Min(box.x1, box.x2)
      maxX == Max(box.x1, box.x2)
      minY == Min(box.y1, box.y2)
      maxY == Max(box.y1, box.y2)
  IN x >= minX /\ x <= maxX /\ y >= minY /\ y <= maxY

\* intersect, for the edge from polygon[j] to polygon[i] (1-based):
\* x < ((xj - xi) * (y - yi)) / (yj - yi) + xi, the division cleared.
Intersects(point, polygon, i, j) ==
  LET x == point[1]
      y == point[2]
      xi == polygon[i][1]
      yi == polygon[i][2]
      xj == polygon[j][1]
      yj == polygon[j][2]
  IN /\ (yi > y) # (yj > y)
     /\ IF yj - yi > 0
        THEN (x - xi) * (yj - yi) < (xj - xi) * (y - yi)
        ELSE (x - xi) * (yj - yi) > (xj - xi) * (y - yi)

\* isPointInPolygon: false below 3 points, else inside flips at every
\* edge the ray crosses.
IsPointInPolygon(point, polygon) ==
  IF Len(polygon) < 3 THEN FALSE
  ELSE LET n == Len(polygon)
           crossed == {i \in 1..n :
                         Intersects(point, polygon, i, IF i = 1 THEN n ELSE i - 1)}
       IN Cardinality(crossed) % 2 = 1

\* A hit test that looks only at the points the plot shows.
RegionIndices_ShownPointsOnly(r, n) ==
  SelectSeq(PlotPoints,
            LAMBDA idx : IF r.type = "box"
                         THEN IsPointInBox(ScreenPoint(idx), r)
                         ELSE IsPointInPolygon(ScreenPoint(idx), r.points))

\* handleRegionSelection: the indices of the episodes shown inside the region.
RegionIndices(r, n) ==
  SelectSeq(Range(n),
            LAMBDA idx : IF r.type = "box"
                         THEN IsPointInBox(ScreenPoint(idx), r)
                         ELSE IsPointInPolygon(ScreenPoint(idx), r.points))

\* modifierKey === 'shift' ? 'add' : modifierKey === 'alt' ? 'remove' : 'replace'
RegionMode(modifier) ==
  IF modifier = "shift" THEN "add"
  ELSE IF modifier = "alt" THEN "remove" ELSE "replace"

\* What an event of the plot leaves alone.
plotFrame == <<dataVars, lastSamplingResult, showSelectedOnly, clusterVars,
               error, navVars, panelVars, heapVars, filterVars, formVars>>

OverlayModes == {"box", "lasso"}

\* The overlay's state, as a record.
IdleOverlay ==
  [isDrawing |-> FALSE, startPoint |-> <<>>, currentPoint |-> <<>>,
   lassoPath |-> <<>>]
CurrentOverlay ==
  [isDrawing |-> isDrawing, startPoint |-> startPoint,
   currentPoint |-> currentPoint, lassoPath |-> lassoPath]
OverlayBecomes(o) ==
  /\ isDrawing' = o.isDrawing
  /\ startPoint' = o.startPoint
  /\ currentPoint' = o.currentPoint
  /\ lassoPath' = o.lassoPath

\* An overlay whose mode effect resets nothing.
ModeEffect_KeepsState(o) == o

\* useEffect(() => { ...reset... }, [mode]): the overlay after its mode
\* prop changed between box and lasso.
ModeEffect(o) == IdleOverlay

\* setInteractionMode(m): the overlay unmounts outside box and lasso,
\* mounts idle, and runs its mode effect when the mode changes under it.
OverlayAfterMode(m) ==
  IF m = interactionMode THEN CurrentOverlay
  ELSE IF m \in OverlayModes /\ interactionMode \in OverlayModes
       THEN ModeEffect(CurrentOverlay)
       ELSE IdleOverlay

\* The keys the plot listens to, and the mode a shortcut key sets.
PlotKeys == {"b", "l", "s", "p", "n", "c", "Shift", "Alt"}
KeyFlags == {"none", "shift", "alt"}
ShortcutMode(key) ==
  IF key = "b" THEN "box"
  ELSE IF key = "l" THEN "lasso"
  ELSE IF key = "s" THEN "select"
  ELSE IF key = "p" THEN "pan"
  ELSE IF key = "n" /\ projectId # NULL THEN "similar"
  ELSE interactionMode

\* e.shiftKey, else e.altKey, of an event while the keys of held are down.
ModifierKeys == {"Shift", "Alt"}
EventFlags(held) ==
  IF "Shift" \in held THEN "shift"
  ELSE IF "Alt" \in held THEN "alt" ELSE "none"

\* keydown: the modifier listener (e.shiftKey, else e.altKey) and the
\* shortcut listener (mode keys, c = clearSelection).
KeyDown(key, flags) ==
  /\ keysDown' = keysDown \cup ({key} \cap ModifierKeys)
  /\ flags = EventFlags(keysDown')
  /\ modifierKey' = IF flags = "none" THEN modifierKey ELSE flags
  /\ interactionMode' = ShortcutMode(key)
  /\ OverlayBecomes(OverlayAfterMode(ShortcutMode(key)))
  /\ captured' = IF ShortcutMode(key) = interactionMode THEN captured ELSE <<>>
  /\ outcome' = NIL
  /\ IF key = "c"
     THEN selectedIndices' = <<>> /\ lastCall' = "clearSelection"
     ELSE UNCHANGED <<selectedIndices, lastCall>>
  /\ UNCHANGED plotFrame

\* keyup, of any key: setModifierKey(null)
KeyUp(key) ==
  /\ key \in ModifierKeys => key \in keysDown
  /\ keysDown' = keysDown \ {key}
  /\ modifierKey' = NULL
  /\ outcome' = NIL
  /\ UNCHANGED <<interactionMode, isDrawing, startPoint, currentPoint,
                 lassoPath, captured, selectedIndices, lastCall>>
  /\ UNCHANGED plotFrame

\* onClick on the point of episode index, in select mode.
OnClick(index) ==
  /\ interactionMode = "select"
  /\ ToggleSelection(index)

\* handleMouseDown
PointerDown(p) ==
  /\ interactionMode \in OverlayModes
  /\ isDrawing' = TRUE
  /\ startPoint' = p
  /\ currentPoint' = p
  /\ lassoPath' = IF interactionMode = "lasso" THEN <<p>> ELSE lassoPath
  /\ captured' = IF interactionMode = "lasso" THEN <<p>> ELSE <<p, p>>
  /\ outcome' = NIL
  /\ UNCHANGED <<interactionMode, modifierKey, keysDown, selectedIndices, lastCall>>
  /\ UNCHANGED plotFrame

\* handleMouseMove
PointerMove(p) ==
  /\ interactionMode \in OverlayModes
  /\ Len(lassoPath) < MaxPath
  /\ IF ~isDrawing \/ startPoint = <<>>
     THEN UNCHANGED <<currentPoint, lassoPath>>
     ELSE /\ currentPoint' = p
          /\ lassoPath' = IF interactionMode = "lasso"
                          THEN Append(lassoPath, p) ELSE lassoPath
  /\ captured' = IF captured = <<>> THEN <<>>
                 ELSE IF interactionMode = "lasso" THEN Append(captured, p)
                 ELSE <<captured[1], p>>
  /\ outcome' = NIL
  /\ UNCHANGED <<interactionMode, modifierKey, keysDown, isDrawing, startPoint,
                 selectedIndices, lastCall>>
  /\ UNCHANGED plotFrame

\* A handleMouseUp that reports a lasso of two points.
RegionDrawn_TwoPointLasso ==
  IF interactionMode = "box"
  THEN [type |-> "box", x1 |-> startPoint[1], y1 |-> startPoint[2],
        x2 |-> currentPoint[1], y2 |-> currentPoint[2]]
  ELSE IF interactionMode = "lasso" /\ Len(lassoPath) > 1
  THEN [type |-> "lasso", points |-> lassoPath]
  ELSE NIL

\* The region handleMouseUp hands to onSelectionComplete, NIL if none.
RegionDrawn ==
  IF interactionMode = "box"
  THEN [type |-> "box", x1 |-> startPoint[1], y1 |-> startPoint[2],
        x2 |-> currentPoint[1], y2 |-> currentPoint[2]]
  ELSE IF interactionMode = "lasso" /\ Len(lassoPath) > 2
  THEN [type |-> "lasso", points |-> lassoPath]
  ELSE NIL

\* handleMouseUp, with handleRegionSelection as its onSelectionComplete
\* (the view state and the deck.gl viewport exist once the plot shows data).
HandleMouseUp ==
  /\ IF ~isDrawing \/ startPoint = <<>> \/ currentPoint = <<>>
     THEN /\ isDrawing' = FALSE
          /\ outcome' = NIL
          /\ UNCHANGED <<startPoint, currentPoint, lassoPath, selectedIndices,
                         lastCall>>
     ELSE /\ outcome' = [gesture |-> captured, reported |-> RegionDrawn]
          /\ IF RegionDrawn # NIL
             THEN /\ lastCall' = RegionMode(modifierKey)
                  /\ selectedIndices' =
                       SelectByRegionResult(
                         selectedIndices,
                         RegionIndices(RegionDrawn, visualizationData.n_episodes),
                         RegionMode(modifierKey))
             ELSE UNCHANGED <<selectedIndices, lastCall>>
          /\ OverlayBecomes(IdleOverlay)
  /\ captured' = <<>>
  /\ UNCHANGED <<interactionMode, modifierKey, keysDown>>
  /\ UNCHANGED plotFrame

\* onMouseUp
PointerUp ==
  /\ interactionMode \in OverlayModes
  /\ HandleMouseUp

\* handleMouseLeave
PointerLeave ==
  /\ interactionMode \in OverlayModes
  /\ IF isDrawing THEN HandleMouseUp
     ELSE /\ outcome' = NIL
          /\ UNCHANGED <<interactionMode, modifierKey, keysDown, isDrawing, startPoint,
                         currentPoint, lassoPath, captured, selectedIndices,
                         lastCall>>
          /\ UNCHANGED plotFrame

\* ------------------------------------------------------------ SpecOverlay
\* The scatter plot of a dashboard that shows project B: the keyboard,
\* clicks on points and the pointer on the drawing overlay.
InitOverlay == Showing("B")

NextOverlay ==
  \/ \E key \in PlotKeys, flags \in KeyFlags : KeyDown(key, flags)
  \/ \E key \in PlotKeys : KeyUp(key)
  \/ \E i \in 0..(NEpisodes("B") - 1) : OnClick(i)
  \/ \E p \in Positions : PointerDown(p)
  \/ \E p \in Positions : PointerMove(p)
  \/ PointerUp
  \/ PointerLeave

SpecOverlay == InitOverlay /\ [][NextOverlay]_vars

\* ------------------------------------------------------------ SpecFilteredRegion
\* Drawing regions on the plot of project A while the control panel sets
\* and clears a filter on success (one at a time) and toggles
\* show-selected-only.
InitFilteredRegion == Showing("A")

NextFilteredRegion ==
  \/ \E operator \in {"equals", "not_equals"} :
       /\ metadataFilters = <<>>
       /\ AddMetadataFilter([field |-> "success", operator |-> operator,
                             value |-> Bool(TRUE)])
       /\ UNCHANGED formVars
  \/ ClearMetadataFilters
  \/ SetShowSelectedOnly(~showSelectedOnly)
  \/ \E key \in {"b", "l", "Shift", "Alt"}, flags \in KeyFlags : KeyDown(key, flags)
  \/ \E key \in {"b", "l", "Shift", "Alt"} : KeyUp(key)
  \/ \E p \in Positions : PointerDown(p)
  \/ \E p \in Positions : PointerMove(p)
  \/ PointerUp

SpecFilteredRegion == InitFilteredRegion /\ [][NextFilteredRegion]_vars

\* ============================================================ claims
\* Every index a selection can hold in this model.
Indices == 0..(MaxEpisodes - 1)

\* C1: selectByRegion(L, mode) leaves the selection equal to set(L) for
\* 'replace', to S \cup set(L) for 'add' and to S \ set(L) for 'remove',
\* a function of (S, L, mode) alone; from {1,2,3}, add {2,4} gives
\* {1,2,3,4} and then remove {2} gives {1,3,4}.
C1_SelectByRegionSetAlgebra ==
  /\ SetOf(SelectByRegionResult(<<1, 2, 3>>, <<2, 4>>, "add")) = {1, 2, 3, 4}
  /\ SetOf(SelectByRegionResult(
         SelectByRegionResult(<<1, 2, 3>>, <<2, 4>>, "add"), <<2>>, "remove"))
       = {1, 3, 4}
  /\ [][\A l \in IndexLists(MaxEpisodes), m \in Modes :
          SelectByRegion(l, m) =>
            SetOf(selectedIndices') =
              CASE m = "replace" -> SetOf(l)
                [] m = "add" -> SetOf(selectedIndices) \cup SetOf(l)
                [] m = "remove" -> SetOf(selectedIndices) \ SetOf(l)]_vars

\* A region was removed from a selection and left one index selected.
C1_Witness == lastCall = "remove" /\ Len(selectedIndices) = 1

\* C2: while a dataset of N episodes is loaded, every selected index lies
\* in [0, N).
C2_SelectionInRange ==
  visualizationData # NIL =>
    SetOf(selectedIndices) \subseteq 0..(visualizationData.n_episodes - 1)

\* C3: applying a sampling result replaces the selection. When the answer
\* r to a sampling request reaches the store, and when client-side cluster
\* sampling stores its result, the selection becomes exactly the set of
\* the result's selected_indices, whatever it was before and whatever the
\* user toggled or cleared while the request was in flight.
C3_SamplingResultReplacesSelection ==
  [][/\ \A k \in 1..MaxInFlight, l \in DistinctLists["B"] :
          SamplingSuccess(k, l) => SetOf(selectedIndices') = SetOf(l)
     /\ (strategy = "cluster" /\ clusterLabels # NIL /\ HandleSample) =>
          /\ lastSamplingResult' # NIL
          /\ lastSamplingResult'.strategy = "cluster"
          /\ SetOf(selectedIndices') =
               SetOf(lastSamplingResult'.selected_indices)]_vars

\* A server result for episode 1 alone has just been applied.
C3_Witness ==
  /\ lastCall = "setLastSamplingResult"
  /\ lastSamplingResult # NIL
  /\ lastSamplingResult.selected_indices = <<1>>
  /\ selectedIndices = <<1>>

\* C4: a selection transition publishes one freshly built Set. At every
\* step of every transition, the steps between the two set() calls of
\* setLastSamplingResult included, the store's selection is the complete
\* set of before the transition or, once published, the complete set the
\* transition computes; the Set under construction is no object the store
\* or a reader holds; and a Set a reader took keeps the values it had.
C4_AtomicPublication ==
  /\ selectedIndices = heap[storeRef]
  /\ heap[storeRef] = IF pc = "idle" THEN postSet ELSE preSet
  /\ pc = "built" => newRef \notin {0, storeRef, readerRef}
  /\ readerRef # 0 => heap[readerRef] = readerSeen

\* selectByRegion(.., 'add') has made the first of its two add calls on
\* newSelection while a reader holds the store's Set.
C4_Witness ==
  /\ pc = "built"
  /\ Len(todo) = 1
  /\ heap[newRef] # preSet
  /\ heap[newRef] # postSet
  /\ readerRef = storeRef

\* C5: at most one sampling request of the panel is in flight. While one
\* is pending the Generate Sample button starts nothing, neither a second
\* request nor client-side cluster sampling, so every answer that reaches
\* the store is the answer to the oldest (the only) request in flight.
C5_OneRequestInFlight ==
  /\ Len(inFlight) <= 1
  /\ [][/\ Len(inFlight') <= 1
        /\ mutationStatus = "pending" => ~HandleSample
        /\ \A k \in 2..MaxInFlight, l \in DistinctLists["B"] :
             ~SamplingSuccess(k, l)]_vars

\* A request is pending while the panel is set to cluster sampling.
C5_Witness ==
  /\ mutationStatus = "pending"
  /\ Len(inFlight) = 1
  /\ strategy = "cluster"
  /\ clusterLabels # NIL

\* C6: the selection is empty initially and empty again right after a
\* different project's data is loaded into the store.
C6_ClearedOnProjectSwitch ==
  /\ selectedIndices = <<>>
  /\ [][\A p \in Projects :
          (VisualizationFetched(p) /\ visualizationData # NIL
             /\ visualizationData.project # p)
          => selectedIndices' = <<>>]_vars

\* C7: a zero-area box is a no-op. A pointer-up (or pointer-leave) that
\* ends a box gesture at the position of its pointer-down leaves the
\* members of the selection as they were, whatever the modifier key.
C7_ZeroAreaBoxIsNoOp ==
  [][(/\ interactionMode = "box"
      /\ isDrawing
      /\ startPoint # <<>>
      /\ startPoint = currentPoint
      /\ (PointerUp \/ PointerLeave))
       => SetOf(selectedIndices') = SetOf(selectedIndices)]_vars

\* C8: a lasso of fewer than 3 points is a no-op. A pointer-up (or
\* pointer-leave) that ends a lasso gesture of fewer than 3 captured points
\* hands no region to the scatter plot and leaves the selection as it was,
\* whatever the modifier key; and isPointInPolygon is false for every
\* point and every polygon of fewer than 3 points.
C8_ShortLassoIsNoOp ==
  /\ \A pt \in Positions, polygon \in SeqsUpTo(Positions, 2) :
       ~IsPointInPolygon(pt, polygon)
  /\ [][(/\ interactionMode = "lasso"
         /\ isDrawing
         /\ Len(lassoPath) < 3
         /\ (PointerUp \/ PointerLeave))
          => /\ outcome' # NIL
             /\ outcome'.reported = NIL
             /\ selectedIndices' = selectedIndices]_vars

\* A lasso gesture of two points has just ended over a selection.
C8_Witness ==
  /\ interactionMode = "lasso"
  /\ outcome # NIL
  /\ Len(outcome.gesture) = 2
  /\ outcome.reported = NIL
  /\ selectedIndices # <<>>

\* C9: the drawing sub-state is reset on pointer-up, on pointer-leave and
\* on a mode switch. After each of these events the overlay is idle, with
\* no start point, no current point and an empty lasso path; and a region
\* handed to onSelectionComplete is made of the positions captured since
\* the latest pointer-down in the current mode: the first and the latest
\* as the corners of a box, all of them as the points of a lasso.
C9_DrawingStateReset ==
  [][/\ (interactionMode' # interactionMode \/ PointerUp \/ PointerLeave)
          => /\ isDrawing' = FALSE
             /\ startPoint' = <<>>
             /\ currentPoint' = <<>>
             /\ lassoPath' = <<>>
     /\ (outcome' # NIL /\ outcome'.reported # NIL)
          => IF outcome'.reported.type = "box"
             THEN captured = << <<outcome'.reported.x1, outcome'.reported.y1>>,
                               <<outcome'.reported.x2, outcome'.reported.y2>> >>
             ELSE captured = outcome'.reported.points]_vars

\* A lasso gesture has just ended with its region reported, the overlay idle.
C9_Witness ==
  /\ outcome # NIL
  /\ outcome.reported # NIL
  /\ outcome.reported.type = "lasso"
  /\ CurrentOverlay = IdleOverlay

\* C10: toggleSelection(i) flips the membership of i, keeps the membership
\* of every other index, and applied twice restores the selection.
C10_ToggleFlipsOnlyI ==
  [][\A i \in Indices :
       ToggleSelection(i) =>
         /\ (i \in SetOf(selectedIndices')) = (i \notin SetOf(selectedIndices))
         /\ \A j \in Indices \ {i} :
              (j \in SetOf(selectedIndices')) = (j \in SetOf(selectedIndices))
         /\ SetOf(ToggleResult(selectedIndices', i)) = SetOf(selectedIndices)]_vars

\* A toggle has just deselected an index among several selected ones.
C10_Witness ==
  /\ lastCall = "toggleSelection"
  /\ Len(selectedIndices) = MaxEpisodes - 1

\* C12: selectByRegion(list, mode) is idempotent. Right after the store
\* has applied it to any selection, for any list and each of the modes
\* replace, add and remove, applying the same call once more gives the
\* same selection (the same members, in the same insertion order).
C12_SelectByRegionIdempotent ==
  [][\A l \in IndexLists(MaxEpisodes), m \in Modes :
       SelectByRegion(l, m) =>
         SelectByRegionResult(selectedIndices', l, m) = selectedIndices']_vars

\* A region has just been added to a selection and filled it.
C12_Witness == lastCall = "add" /\ Len(selectedIndices) = MaxEpisodes

\* C13: for a non-empty filter list and any episode count, applyFilters
\* returns exactly the indices idx in [0, N) such that, for every filter,
\* the filter's field is a column of the metadata, the column's value at
\* idx is neither null nor undefined and evaluateFilter(value, filter) is
\* true; a filter that names a missing field leaves the pass-set empty.
C13_ApplyFiltersPassSet ==
  Len(metadataFilters) > 0 =>
    \A n \in 0..(MaxEpisodes + 1) :
      LET passed == ApplyFilters(DataMetadata, metadataFilters, n)
          Passes(idx, filter) ==
            /\ filter.field \in DOMAIN DataMetadata
            /\ idx + 1 \in DOMAIN DataMetadata[filter.field]
            /\ DataMetadata[filter.field][idx + 1] # JsNull
            /\ EvaluateFilter(DataMetadata[filter.field][idx + 1], filter)
      IN /\ SetOf(passed) =
              {idx \in 0..(n - 1) :
                 \A k \in 1..Len(metadataFilters) : Passes(idx, metadataFilters[k])}
         /\ (\E k \in 1..Len(metadataFilters) :
               metadataFilters[k].field \notin DOMAIN DataMetadata)
              => passed = <<>>

\* Two filters are active and episode 0 alone passes both.
C13_Witness ==
  /\ Len(metadataFilters) = 2
  /\ metadataFilters[1].field # metadataFilters[2].field
  /\ ApplyFilters(DataMetadata, metadataFilters, DataEpisodes) = <<0>>

\* C14: filter monotonicity. For a non-empty filter list fs, the pass-set
\* of fs is a subset of the pass-set of fs without its last filter, the
\* list of one filter (whose shorter list is empty) included.
C14_FilterMonotonicity ==
  Len(metadataFilters) > 0 =>
    SetOf(ApplyFilters(DataMetadata, metadataFilters, DataEpisodes))
      \subseteq
    SetOf(ApplyFilters(DataMetadata,
                       SubSeq(metadataFilters, 1, Len(metadataFilters) - 1),
                       DataEpisodes))

\* C15: no filtering and an empty pass-set are never conflated. With no
\* active filter the scatter plot, the thumbnail gallery and the sampling
\* panel all take the whole range [0, N) as eligible; with an active
\* filter list that no index passes they all take no index as eligible
\* (show-selected-only being off).
C15_NoFilterIsNotEmptyPassSet ==
  LET all == 0..(DataEpisodes - 1)
      panelEligible == IF PanelFilteredIndices = NIL THEN all
                       ELSE SetOf(PanelFilteredIndices.indices)
      eligible == <<SetOf(PlotPoints), SetOf(GalleryIndices), panelEligible>>
  IN ~showSelectedOnly =>
       /\ Len(metadataFilters) = 0 =>
            /\ \A c \in 1..3 : eligible[c] = all
            /\ AvailableCount = DataEpisodes
       /\ (/\ Len(metadataFilters) > 0
           /\ ApplyFilters(DataMetadata, metadataFilters, DataEpisodes) = <<>>)
            => /\ \A c \in 1..3 : eligible[c] = {}
               /\ AvailableCount = 0

\* C17: evaluateFilter yields a boolean for every column value and every
\* filter (no case is left undefined), and false on every operator/type
\* mismatch: 'in' with a filter value that is no array, and gt, lt, gte
\* and lte when the value or the filter value is no number.
C17_EvaluateFilterFailsClosed ==
  \A k \in 1..Len(metadataFilters),
     value \in {Bool(TRUE), Bool(FALSE), Num(1), Num(2), Str("a"), Str("b")} :
    LET filter == metadataFilters[k]
        result == EvaluateFilter(value, filter)
    IN /\ result \in BOOLEAN
       /\ (filter.operator = "in" /\ filter.value.t # "array") => result = FALSE
       /\ (/\ filter.operator \in {"gt", "lt", "gte", "lte"}
           /\ (value.t # "number" \/ filter.value.t # "number"))
            => result = FALSE

\* An 'in' filter with a string (not an array) as its value is active.
C17_Witness ==
  /\ Len(metadataFilters) = 1
  /\ metadataFilters[1].operator = "in"
  /\ metadataFilters[1].value = Str("a")

\* C11: selectAll replaces the selection with exactly {0, ..., N-1}, N the
\* loaded dataset's n_episodes, whatever the selection was and whatever
\* metadata filters are active; with no dataset loaded it leaves the
\* selection as it is.
C11_SelectAllIsWholeRange ==
  /\ \A current \in IndexLists(MaxEpisodes) :
       SelectAllResult(current, NIL) = current
  /\ [][SelectAll =>
          /\ visualizationData # NIL
          /\ SetOf(selectedIndices') = 0..(visualizationData.n_episodes - 1)
          /\ Len(selectedIndices') = visualizationData.n_episodes]_vars

\* Select All has just run with a filter active that no episode passes.
C11_Witness ==
  /\ lastCall = "selectAll"
  /\ Len(metadataFilters) > 0
  /\ ApplyFilters(DataMetadata, metadataFilters, DataEpisodes) = <<>>
  /\ Len(selectedIndices) = DataEpisodes

\* C16: with metadata filters active, sampling draws only from the
\* filtered subset. Every index a sample generated by the panel puts into
\* the selection passes all the filters active when the sample was
\* generated: the indices of client-side cluster sampling, and those of
\* the answer to a request made under active filters.
C16_SamplingWithinFilteredSubset ==
  [][/\ (/\ Len(metadataFilters) > 0
         /\ strategy = "cluster"
         /\ clusterLabels # NIL
         /\ HandleSample)
          => SetOf(selectedIndices') \subseteq
               SetOf(ApplyFilters(DataMetadata, metadataFilters, DataEpisodes))
     /\ \A k \in 1..MaxInFlight, l \in DistinctLists["A"] :
          (/\ k <= Len(inFlight)
           /\ Len(inFlight[k].activeFilters) > 0
           /\ SamplingSuccess(k, l))
            => SetOf(selectedIndices') \subseteq
                 SetOf(ApplyFilters(DataMetadata, inFlight[k].activeFilters,
                                    DataEpisodes))]_vars

\* C18: cluster sampling allocates slots evenly. With k distinct non-noise
\* labels, base = floor(n_samples / k) and remainder = n_samples mod k,
\* the cluster at position j of the ascending label order is allocated
\* base + 1 slots if j < remainder and base slots otherwise: the
\* allocations add up to n_samples, every cluster that has that many
\* members contributes exactly its allocation, and three clusters with
\* n_samples = 25 are allocated 9, 8 and 8.
C18_EvenAllocation ==
  /\ <<SamplesToTake(25, 3, 0), SamplesToTake(25, 3, 1), SamplesToTake(25, 3, 2)>>
       = <<9, 8, 8>>
  /\ [][(nSamples >= 0 /\ HandleSample) =>
          LET labels == clusterLabels.labels
              ids == {labels[i] : i \in 1..Len(labels)} \ {-1}
              k == Cardinality(ids)
              base == nSamples \div k
              remainder == nSamples % k
              Position(c) == Cardinality({d \in ids : d < c})
              Allocation(c) == IF Position(c) < remainder THEN base + 1 ELSE base
              Members(c) == {i \in 0..(Len(labels) - 1) : labels[i + 1] = c}
              Taken(c) == SetOf(selectedIndices') \cap Members(c)
          IN \A c \in ids :
               /\ Cardinality({d \in ids : Allocation(d) = base + 1}) = remainder
               /\ Cardinality(Members(c)) >= Allocation(c)
                    => Cardinality(Taken(c)) = Allocation(c)]_vars

\* Cluster sampling of 3 from the labels [1, 0, 0] has taken both members
\* of cluster 0 and the one member of cluster 1.
C18_Witness ==
  /\ lastCall = "selectIndices"
  /\ nSamples = 3
  /\ clusterLabels.labels[1] = 1
  /\ clusterLabels.labels[2] = 0
  /\ clusterLabels.labels[3] = 0
  /\ SetOf(selectedIndices) = {0, 1, 2}

C21_NoNoiseNoDuplicates ==
  [][(strategy = "cluster" /\ HandleSample) =>
       LET labels == clusterLabels.labels
           picked == lastSamplingResult'.selected_indices
       IN /\ \A a \in 1..Len(picked) :
               /\ picked[a] \in 0..(Len(labels) - 1)
               /\ labels[picked[a] + 1] # -1
          /\ \A a, b \in 1..Len(picked) : a # b => picked[a] # picked[b]
          /\ selectedIndices' = picked]_vars

\* Cluster sampling of 2 from the labels [0, -1, 0] has selected the two
\* members of cluster 0 and left the noise episode out.
C21_Witness ==
  /\ lastCall = "selectIndices"
  /\ nSamples = 2
  /\ clusterLabels.labels = <<0, -1, 0>>
  /\ SetOf(selectedIndices) = {0, 2}

\* C22: the coverage score reported for a cluster sample over k >= 1
\* distinct non-noise labels equals (number of clusters that contribute at
\* least one member to the result) / k: it lies in [0, 1], is 1 exactly
\* when every cluster contributes, and is below 1 when some cluster is
\* left without a member.
C22_CoverageScore ==
  [][(strategy = "cluster" /\ clusterLabels # NIL /\ HandleSample) =>
       LET labels == clusterLabels.labels
           ids == {labels[i] : i \in 1..Len(labels)} \ {-1}
           k == Cardinality(ids)
           picked == lastSamplingResult'.selected_indices
           contributing ==
             {c \in ids : \E a \in 1..Len(picked) : labels[picked[a] + 1] = c}
           score == lastSamplingResult'.coverage_score
       IN k >= 1 =>
            /\ score.den > 0
            /\ score.num * k = Cardinality(contributing) * score.den
            /\ 0 <= score.num /\ score.num <= score.den
            /\ score.num = score.den <=> contributing = ids]_vars

\* C23: cluster sampling is reproducible. handleClusterSampling takes its
\* inputs from clusterLabels and nSamples and has no seed to give, so two
\* runs over the same labels and the same n_samples (no step between them
\* changes either) are two runs with the same inputs: the second selects
\* the same set of indices as the first (stated for n_samples >= 1, the
\* counts the panel's slider can give).
C23_Reproducible ==
  [][(/\ lastCall = "selectIndices"
      /\ nSamples >= 1
      /\ lastSamplingResult # NIL
      /\ HandleSample
      /\ clusterLabels' = clusterLabels
      /\ nSamples' = nSamples)
       => /\ SetOf(lastSamplingResult'.selected_indices)
               = SetOf(lastSamplingResult.selected_indices)
          /\ SetOf(selectedIndices') = SetOf(selectedIndices)]_vars

\* C24: computeSelectionStats returns an empty result when the selection
\* is empty, and otherwise exactly one entry for every metadata field,
\* typed by the first non-null value among the field's selected entries;
\* a field whose selected entries are all null is still reported, as
\* categorical.
C24_OneEntryPerField ==
  visualizationData # NIL =>
    LET stats == SelectionStats
        md == DataMetadata
        Entries(field) == {k \in 1..Len(stats) : stats[k].field = field}
        Slice(field) ==
          [k \in 1..Len(selectedIndices) |-> ValueAt(md[field], selectedIndices[k])]
        NonNull(field) ==
          {k \in 1..Len(selectedIndices) :
             Slice(field)[k].t \notin {"null", "undefined"}}
        TypeOf(field) ==
          IF NonNull(field) = {} THEN "categorical"
          ELSE LET k == CHOOSE a \in NonNull(field) : \A b \in NonNull(field) : a <= b
               IN CASE Slice(field)[k].t = "boolean" -> "boolean"
                    [] Slice(field)[k].t = "number" -> "numeric"
                    [] OTHER -> "categorical"
    IN IF selectedIndices = <<>> THEN stats = <<>>
       ELSE /\ Len(stats) = Cardinality(DOMAIN md)
            /\ \A field \in DOMAIN md :
                 /\ Cardinality(Entries(field)) = 1
                 /\ \A k \in Entries(field) : stats[k].type = TypeOf(field)

\* C25: for a boolean field, trueCount and falseCount are the numbers of
\* selected entries equal to true and to false, truePercent and
\* falsePercent are 100 * count / (trueCount + falseCount) rounded to the
\* nearest whole number, and both are 0 when trueCount + falseCount = 0;
\* [true, true, false] gives 2, 1, 67, 33. Stated for every list of
\* booleans up to one longer than the dataset, and for the boolean entries
\* of the statistics of the store's selection.
C25_BooleanStats ==
  LET Nearest(p, count, total) ==
        IF total = 0 THEN p = 0
        ELSE /\ 2 * (p * total - 100 * count) <= total
             /\ 2 * (100 * count - p * total) <= total
      Right(st, trues, falses) ==
        /\ st.type = "boolean"
        /\ st.trueCount = trues
        /\ st.falseCount = falses
        /\ Nearest(st.truePercent, trues, trues + falses)
        /\ Nearest(st.falsePercent, falses, trues + falses)
  IN /\ LET st == ComputeBooleanStats("success", <<Bool(TRUE), Bool(TRUE), Bool(FALSE)>>)
        IN <<st.trueCount, st.falseCount, st.truePercent, st.falsePercent>>
             = <<2, 1, 67, 33>>
     /\ \A values \in SeqsUpTo({Bool(TRUE), Bool(FALSE)}, MaxEpisodes + 1) :
          Right(ComputeBooleanStats("success", values),
                Cardinality({k \in 1..Len(values) : values[k].v}),
                Cardinality({k \in 1..Len(values) : ~values[k].v}))
     /\ visualizationData # NIL =>
          \A k \in 1..Len(SelectionStats) :
            LET st == SelectionStats[k]
                column == DataMetadata[st.field]
                Selected(b) ==
                  {i \in SetOf(selectedIndices) : ValueAt(column, i) = Bool(b)}
            IN st.type = "boolean" =>
                 Right(st, Cardinality(Selected(TRUE)), Cardinality(Selected(FALSE)))

\* The statistics of a selection of all three episodes of project A (two
\* of them successful) report 2 and 1, 67 and 33 percent.
C25_Witness ==
  /\ project = "A"
  /\ Len(selectedIndices) = 3
  /\ SelectionStats[1].type = "boolean"
  /\ SelectionStats[1].trueCount = 2
  /\ SelectionStats[1].truePercent = 67
  /\ SelectionStats[1].falsePercent = 33

\* C26: completing a box or lasso region selects, under the chosen mode,
\* exactly the dataset indices whose screen position lies inside the
\* region, taken over all N points: replace leaves the inside set, add the
\* selection joined with it, remove the selection without it, whatever
\* metadata filters are active and whether or not show-selected-only is on.
C26_RegionSelectsOverAllPoints ==
  [][(PointerUp /\ isDrawing /\ startPoint # <<>> /\ currentPoint # <<>>
        /\ RegionDrawn # NIL) =>
       LET r == RegionDrawn
           inside ==
             {idx \in 0..(visualizationData.n_episodes - 1) :
                IF r.type = "box"
                THEN LET x == ScreenPoint(idx)[1]
                         y == ScreenPoint(idx)[2]
                     IN /\ \E a, b \in {r.x1, r.x2} : a <= x /\ x <= b
                        /\ \E a, b \in {r.y1, r.y2} : a <= y /\ y <= b
                ELSE IsPointInPolygon(ScreenPoint(idx), r.points)}
           old == SetOf(selectedIndices)
       IN SetOf(selectedIndices') =
            CASE modifierKey = "shift" -> old \cup inside
              [] modifierKey = "alt" -> old \ inside
              [] OTHER -> inside]_vars

\* With a filter active that episode 0 fails and show-selected-only on, a
\* lasso drawn in replace mode has selected episode 0.
C26_Witness ==
  /\ Len(metadataFilters) > 0
  /\ showSelectedOnly
  /\ outcome # NIL
  /\ outcome.reported # NIL
  /\ outcome.reported.type = "lasso"
  /\ lastCall = "replace"
  /\ 0 \in SetOf(selectedIndices)
  /\ 0 \notin SetOf(ApplyFilters(DataMetadata, metadataFilters, DataEpisodes))

\* C27: isPointInBox gives the same answer for a box and for the box with
\* x1/x2 and/or y1/y2 swapped, and a point is inside iff it lies between
\* the smaller and the larger corner coordinate on each axis, the boundary
\* included: for every point and box with coordinates from one below to
\* one above the overlay's, and for the box of every gesture completed
\* with no modifier key, which selects the episodes between its corners.
C27_BoxCornerOrder ==
  /\ LET Between(v, a, b) == (a <= v /\ v <= b) \/ (b <= v /\ v <= a)
         Box(a, b, c, d) == [type |-> "box", x1 |-> a, y1 |-> b, x2 |-> c, y2 |-> d]
         coords == (0 - 1)..(MaxCoord + 1)
     IN \A x, y, a, b, c, d \in coords :
          /\ IsPointInBox(<<x, y>>, Box(a, b, c, d))
               = (Between(x, a, c) /\ Between(y, b, d))
          /\ IsPointInBox(<<x, y>>, Box(a, b, c, d))
               = IsPointInBox(<<x, y>>, Box(c, b, a, d))
          /\ IsPointInBox(<<x, y>>, Box(a, b, c, d))
               = IsPointInBox(<<x, y>>, Box(a, d, c, b))
          /\ IsPointInBox(<<x, y>>, Box(a, b, c, d))
               = IsPointInBox(<<x, y>>, Box(c, d, a, b))
  /\ [][(PointerUp /\ isDrawing /\ interactionMode = "box"
           /\ startPoint # <<>> /\ currentPoint # <<>> /\ modifierKey = NULL) =>
          LET Between(v, a, b) == (a <= v /\ v <= b) \/ (b <= v /\ v <= a)
          IN SetOf(selectedIndices') =
               {idx \in 0..(visualizationData.n_episodes - 1) :
                  /\ Between(ScreenPoint(idx)[1], startPoint[1], currentPoint[1])
                  /\ Between(ScreenPoint(idx)[2], startPoint[2], currentPoint[2])}]_vars

\* A box dragged from the lower right to the upper left (x1 > x2 and
\* y1 > y2) has selected the episodes inside it.
C27_Witness ==
  /\ outcome # NIL
  /\ outcome.reported # NIL
  /\ outcome.reported.type = "box"
  /\ outcome.reported.x1 > outcome.reported.x2
  /\ outcome.reported.y1 > outcome.reported.y2
  /\ lastCall = "replace"
  /\ Len(selectedIndices) = 2

\* C28: a region completed while the Shift key (and not Alt) is held down
\* is applied in 'add' mode, while the Alt key (and not Shift) is held
\* down in 'remove' mode, and with neither held in 'replace' mode,
\* whatever key-down and key-up events came before.
C28_ModeFollowsHeldKey ==
  [][(PointerUp /\ isDrawing /\ startPoint # <<>> /\ currentPoint # <<>>
        /\ RegionDrawn # NIL) =>
       /\ keysDown = {"Shift"} => lastCall' = "add"
       /\ keysDown = {"Alt"} => lastCall' = "remove"
       /\ keysDown = {} => lastCall' = "replace"]_vars

\* C29: every filter added through the control panel's filter form carries
\* an operator from the legal set for the inferred type of its field (the
\* type of the column's first non-null value: boolean -> equals,
\* not_equals; numeric -> those and gt, lt, gte, lte; string -> equals,
\* not_equals, in), after any sequence of field selections, operator
\* selections, value edits and add-filter actions.
C29_FormOperatorsAreLegal ==
  \A k \in 1..Len(metadataFilters) :
    LET filter == metadataFilters[k]
        column == DataMetadata[filter.field]
        nonNull == {i \in 1..Len(column) : column[i].t \notin {"null", "undefined"}}
        first == CHOOSE i \in nonNull : \A j \in nonNull : i <= j
        legal ==
          IF nonNull # {} /\ column[first].t = "boolean"
          THEN {"equals", "not_equals"}
          ELSE IF nonNull # {} /\ column[first].t = "number"
          THEN {"equals", "not_equals", "gt", "lt", "gte", "lte"}
          ELSE {"equals", "not_equals", "in"}
    IN /\ filter.field \in DOMAIN DataMetadata
       /\ filter.operator \in legal

\* The form has added a gt filter on the numeric column and then, the
\* field changed to the boolean column, a filter on success.
C29_Witness ==
  /\ Len(metadataFilters) = 2
  /\ metadataFilters[1].field = "episode_length"
  /\ metadataFilters[1].operator = "gt"
  /\ metadataFilters[2].field = "success"
  /\ lastCall = "addMetadataFilter"

\* C30: the selection statistics depend only on which indices are
\* selected: any two selections with the same members, whatever the order
\* in which the members entered the Set, give the same result of
\* computeSelectionStats, field types and category order included.
C30_StatsIgnoreInsertionOrder ==
  visualizationData # NIL =>
    LET n == Len(selectedIndices)
        members == SetOf(selectedIndices)
        orders == {other \in [1..n -> members] : SetOf(other) = members}
    IN \A other \in orders :
         ComputeSelectionStats(DataMetadata, other) = SelectionStats

====
